---- MODULE Spec2Model ----
(***************************************************************************)
(* Renewable Energy Household Dashboard (src/app.py).                      *)
(*                                                                         *)
(* The script main() is re-executed by the hosting framework; load_data()  *)
(* is memoized.  One execution of main() sorts the table by Year, computes *)
(* the usage and savings aggregates, the cumulative adoption table and its *)
(* expansion, and the per-country map reduction.                           *)
(*                                                                         *)
(* A DataFrame is a sequence of entries [idx |-> label, row |-> record]:   *)
(* position in the sequence is the positional order, idx the index label.  *)
(* A float result is an exact fraction <<numerator, denominator>>.         *)
(***************************************************************************)
EXTENDS Integers, Sequences, FiniteSets

VARIABLES
    file,                   \* rows of renewable_dataset.csv on disk
    argsort,                \* the order the default sort gives the file's rows
    cache,                  \* st.cache_data store of load_data: <<>> or <<df>>
    reads,                  \* number of pd.read_csv calls so far
    selected_year,          \* value of the "Select Year" selectbox
    selected_variable,      \* value of the "Select Variable" selectbox
    data,                   \* main(): data after sort_values
    avg_usage,              \* main(): avg_usage
    avg_savings,            \* main(): avg_savings
    adoption_years,         \* main(): adoption_years after cumsum
    expanded_adoption_data, \* main(): expanded_adoption_data
    country_avg,            \* main(): country_avg
    error                   \* exception that ended the last run of main()

vars == <<file, argsort, cache, reads, selected_year, selected_variable, data,
          avg_usage, avg_savings, adoption_years, expanded_adoption_data,
          country_avg, error>>

----------------------------------------------------------------------------
\* Bounds and input domains

MaxRows == 3

\* a missing cell of a numeric column (float NaN after read_csv)
NaN == -1
\* a missing cell of a string column (an empty CSV field, NaN after read_csv)
NA == ""
\* the float NaN produced by a mean over no values (0/0)
NaNFloat == <<0, 0>>
\* the selectbox value when it has no options (Python None)
NoSelection == 0
NoError == "none"

\* lexicographic order of the strings that occur in the model's tables
Lex == <<"Brazil", "High", "India", "Low", "Rural", "Solar", "Urban", "Wind">>

variables == <<"Monthly_Usage_kWh", "Cost_Savings_USD", "Household_Size",
               "Income_Level", "Urban_Rural">>
numeric_variables == {"Monthly_Usage_kWh", "Cost_Savings_USD", "Household_Size"}

Base == [Year |-> 2015, Country |-> "Brazil", Energy_Source |-> "Solar",
         Monthly_Usage_kWh |-> 100, Cost_Savings_USD |-> 10,
         Income_Level |-> "Low", Household_Size |-> 2,
         Urban_Rural |-> "Urban", Adoption_Year |-> 2010]

\* rows that differ in Year and Country (sorting)
SortKeys == {<<2015, "Brazil">>, <<2015, "India">>, <<2016, "Brazil">>,
             <<2016, "India">>, <<2017, "Brazil">>}
SortRows == {[Base EXCEPT !.Year = k[1], !.Country = k[2]] : k \in SortKeys}

\* rows that differ in the grouping keys and the aggregated columns of the
\* two bar-chart aggregations
AggCells == {<<2015, "Solar", 100, "Low", NaN>>,
             <<2015, "Solar", 200, "High", 30>>,
             <<2015, "Wind", NaN, "Low", 10>>,
             <<2015, "Wind", 100, "High", 10>>,
             <<2016, "Solar", 200, "Low", 10>>,
             <<2016, "Wind", NaN, "High", NaN>>}
AggRows ==
    {[Base EXCEPT !.Year = c[1], !.Energy_Source = c[2],
                  !.Monthly_Usage_kWh = c[3], !.Income_Level = c[4],
                  !.Cost_Savings_USD = c[5]] : c \in AggCells}

\* rows that differ in Year and Adoption_Year
AdoptionCells == {<<2015, NaN>>, <<2015, 2010>>, <<2015, 2012>>,
                  <<2015, 2014>>, <<2016, 2010>>, <<2016, 2014>>}
AdoptionRows ==
    {[Base EXCEPT !.Year = c[1], !.Adoption_Year = c[2]] : c \in AdoptionCells}

\* rows that differ in Year, Country and the five selectable variables
MapKeys == {<<2015, "Brazil", 1>>, <<2015, "Brazil", 2>>,
            <<2015, "Brazil", 3>>, <<2015, "India", 1>>,
            <<2015, "India", 2>>, <<2016, "India", 3>>}
MapCells == <<<<NaN, 10, 2, NA, "Urban">>, <<100, NaN, 4, "Low", "Rural">>,
              <<200, 30, NaN, "High", NA>>>>
MapRows ==
    {[Base EXCEPT !.Year = k[1], !.Country = k[2],
                  !.Monthly_Usage_kWh = MapCells[k[3]][1],
                  !.Cost_Savings_USD = MapCells[k[3]][2],
                  !.Household_Size = MapCells[k[3]][3],
                  !.Income_Level = MapCells[k[3]][4],
                  !.Urban_Rural = MapCells[k[3]][5]] : k \in MapKeys}

\* rows that differ in Year, Country and the two categorical variables
ModeCells == {<<2015, "Brazil", "Low", "Urban">>,
              <<2015, "Brazil", "High", "Rural">>,
              <<2015, "Brazil", NA, NA>>,
              <<2015, "India", "Low", "Rural">>,
              <<2016, "India", "High", "Urban">>,
              <<2016, "India", "Low", NA>>}
ModeRows ==
    {[Base EXCEPT !.Year = c[1], !.Country = c[2], !.Income_Level = c[3],
                  !.Urban_Rural = c[4]] : c \in ModeCells}

Tables(Rows) == UNION {[1..n -> Rows] : n \in 0..MaxRows}

----------------------------------------------------------------------------
\* Library helpers

RECURSIVE Sum(_)
Sum(s) == IF s = <<>> THEN 0 ELSE Head(s) + Sum(Tail(s))

RECURSIVE GCD(_, _)
GCD(a, b) == IF b = 0 THEN a ELSE GCD(b, a % b)

\* exact quotient n/d, d > 0, in lowest terms
Fraction(n, d) == LET g == GCD(n, d) IN <<n \div g, d \div g>>

StrRank(s) == CHOOSE k \in DOMAIN Lex : Lex[k] = s

\* the elements of S in ascending order of rank[x]; ranks are distinct
RECURSIVE SortedBy(_, _)
SortedBy(S, rank) ==
    IF S = {} THEN <<>>
    ELSE LET m == CHOOSE x \in S : \A y \in S : rank[x] <= rank[y]
         IN  <<m>> \o SortedBy(S \ {m}, rank)

\* a DataFrame with a fresh RangeIndex over the given rows
Frame(rows) == [i \in DOMAIN rows |-> [idx |-> i - 1, row |-> rows[i]]]

Column(df, col) == [i \in DOMAIN df |-> df[i].row[col]]

Orderings(n) ==
    {p \in [1..n -> 1..n] : \A i, j \in 1..n : i # j => p[i] # p[j]}

\* np.argsort(kind='quicksort') of a column: the orders that put the keys in
\* non-decreasing order; which of them comes out when keys are equal is not
\* specified (the sort is not stable)
argsorts(s) ==
    {q \in Orderings(Len(s)) :
        \A k \in 1..(Len(s) - 1) : s[q[k]] <= s[q[k + 1]]}

\* DataFrame.take: the rows at the given positions, index labels kept
take(df, order) == [k \in 1..Len(df) |-> df[order[k]]]

\* Series.unique(): the distinct values in order of first appearance
RECURSIVE unique(_)
unique(s) ==
    IF s = <<>> THEN <<>>
    ELSE LET init == unique(SubSeq(s, 1, Len(s) - 1))
             last == s[Len(s)]
         IN  IF \E i \in DOMAIN init : init[i] = last
             THEN init ELSE Append(init, last)

Count(s, v) == Cardinality({i \in DOMAIN s : s[i] = v})

\* Series.mean(): NaN skipped, sum / count
mean_nan_as_zero(s) ==
    LET vals == SelectSeq(s, LAMBDA v : v # NaN)
    IN  IF s = <<>> THEN NaNFloat ELSE Fraction(Sum(vals), Len(s))
mean(s) ==
    LET vals == SelectSeq(s, LAMBDA v : v # NaN)
    IN  IF vals = <<>> THEN NaNFloat ELSE Fraction(Sum(vals), Len(vals))

Range(s) == {s[i] : i \in DOMAIN s}

string_columns == {"Country", "Energy_Source", "Income_Level", "Urban_Rural"}

\* pd.isna of a cell of the given column
isna(col, v) == IF col \in string_columns THEN v = NA ELSE v = NaN

\* np.sort of an array of strings
np_sort_skipped(s) == s
np_sort(s) == SortedBy(Range(s), [x \in Range(s) |-> StrRank(x)])

\* Series.mode(): NaN dropped, the most frequent values, sorted
mode(s) ==
    LET vals  == SelectSeq(s, LAMBDA v : v # NA)
        u     == unique(vals)
        most  == CHOOSE c \in {Count(vals, u[i]) : i \in DOMAIN u} :
                     \A i \in DOMAIN u : Count(vals, u[i]) <= c
        modes == SelectSeq(u, LAMBDA v : Count(vals, v) = most)
    IN  IF vals = <<>> THEN <<>> ELSE np_sort(modes)

KeyError == "KeyError"
ValueError == "ValueError"

\* lambda x: x.mode()[0]; indexing an empty Series raises KeyError
mode_first(s) == IF mode(s) = <<>> THEN KeyError ELSE mode(s)[1]

\* rank of a group key in the sorted order of the groupby result
CellRank(col, v) == IF col \in string_columns THEN StrRank(v) ELSE v
KeyRank(keys, k) ==
    IF Len(keys) = 1 THEN CellRank(keys[1], k[1])
    ELSE CellRank(keys[1], k[1]) * (Len(Lex) + 1) + CellRank(keys[2], k[2])

\* the reduction applied to the values of one group: .mean(), or
\* .agg(lambda x: x.mode()[0])
reduce(how, s) == IF how = "mean" THEN mean(s) ELSE mode_first(s)

\* df.groupby(keys)[col].agg(how).reset_index(): rows with a missing key are
\* dropped (dropna=True), one row per observed key, sorted by key
groupby_agg(df, keys, col, how) ==
    LET present  == SelectSeq(df, LAMBDA e :
                        \A i \in DOMAIN keys : ~isna(keys[i], e.row[keys[i]]))
        keyOf(e) == [i \in DOMAIN keys |-> e.row[keys[i]]]
        ks       == {keyOf(present[i]) : i \in DOMAIN present}
        order    == SortedBy(ks, [k \in ks |-> KeyRank(keys, k)])
        group(k) == SelectSeq(present, LAMBDA e : keyOf(e) = k)
        pos(c)   == CHOOSE i \in DOMAIN keys : keys[i] = c
    IN  Frame([n \in 1..Len(order) |->
                 [c \in Range(keys) \cup {col} |->
                     IF c = col THEN reduce(how, Column(group(order[n]), col))
                     ELSE order[n][pos(c)]]])

\* data['Adoption_Year'].value_counts().reset_index() with the columns
\* renamed to Year, Count: NaN dropped, most frequent first
value_counts(s) ==
    LET vals   == SelectSeq(s, LAMBDA v : v # NaN)
        u      == unique(vals)
        pos(v) == CHOOSE i \in DOMAIN u : u[i] = v
        order  == SortedBy(Range(u), [v \in Range(u) |->
                      (Len(vals) - Count(vals, v)) * (Len(u) + 1) + pos(v)])
    IN  Frame([n \in 1..Len(order) |->
                 [Year |-> order[n], Count |-> Count(vals, order[n])]])

\* adoption_years['Cumulative_Count'] = adoption_years['Count'].cumsum()
cumsum(df) ==
    [i \in 1..Len(df) |->
        [idx |-> df[i].idx,
         row |-> [Year |-> df[i].row.Year, Count |-> df[i].row.Count,
                  Cumulative_Count |->
                      Sum(SubSeq(Column(df, "Count"), 1, i))]]]

\* sorted(adoption_years['Year'].unique())
sorted_unique(s) == SortedBy(Range(s), [x \in Range(s) |-> x])

\* adoption_years[adoption_years['Year'] <= year] with Animation_Year = year
snapshot_before(df, year) ==
    LET kept == SelectSeq(df, LAMBDA e : e.row.Year < year)
    IN  [i \in 1..Len(kept) |->
            [idx |-> kept[i].idx,
             row |-> [Year |-> kept[i].row.Year, Count |-> kept[i].row.Count,
                      Cumulative_Count |-> kept[i].row.Cumulative_Count,
                      Animation_Year |-> year]]]
snapshot(df, year) ==
    LET kept == SelectSeq(df, LAMBDA e : e.row.Year <= year)
    IN  [i \in 1..Len(kept) |->
            [idx |-> kept[i].idx,
             row |-> [Year |-> kept[i].row.Year, Count |-> kept[i].row.Count,
                      Cumulative_Count |-> kept[i].row.Cumulative_Count,
                      Animation_Year |-> year]]]

\* pd.concat of the snapshots of all_years, in order
RECURSIVE concat_snapshots(_, _)
concat_snapshots(df, all_years) ==
    IF all_years = <<>> THEN <<>>
    ELSE snapshot(df, Head(all_years)) \o concat_snapshots(df, Tail(all_years))

\* st.selectbox: the value held by the widget if it is still an option,
\* else the first option, None without options
selectbox(options, held) ==
    IF held \in Range(options) THEN held
    ELSE IF options = <<>> THEN NoSelection ELSE options[1]

----------------------------------------------------------------------------
\* The program

\* @st.cache_data: a second call with the same (empty) arguments is served
\* from the store
CacheMiss(store) == FALSE
CacheHit(store) == store # <<>>

\* data = data.sort_values(by='Year')
NotSorted(df, order) == df
SortByYear(df, order) == take(df, order)

\* data.groupby(['Year', 'Energy_Source'])['Monthly_Usage_kWh'].mean()
aggregate_usage(df) ==
    groupby_agg(df, <<"Year", "Energy_Source">>, "Monthly_Usage_kWh", "mean")

\* data.groupby(['Year', 'Income_Level'])['Cost_Savings_USD'].mean()
aggregate_savings(df) ==
    groupby_agg(df, <<"Year", "Income_Level">>, "Cost_Savings_USD", "mean")

\* adoption_years = adoption_years.sort_values('Year')
AdoptionNotSorted(counts) == counts
AdoptionSorted(counts) ==
    take(counts, CHOOSE q \in argsorts(Column(counts, "Year")) : TRUE)

\* the frames of the animation: one snapshot per year of the cumulative table
expand(df) == concat_snapshots(df, sorted_unique(Column(df, "Year")))

\* filtered_data = data[data['Year'] == selected_year]
filter_year(df, year) == SelectSeq(df, LAMBDA e : e.row.Year = year)

\* the two branches of the map reduction
map_reduce(df, year, variable) ==
    IF variable \in numeric_variables
    THEN groupby_agg(filter_year(df, year), <<"Country">>, variable, "mean")
    ELSE groupby_agg(filter_year(df, year), <<"Country">>, variable, "mode")

\* whether the lambda of the categorical branch raised for some group
map_raises(df, year, variable) ==
    /\ variable \notin numeric_variables
    /\ \E e \in Range(map_reduce(df, year, variable)) :
           e.row[variable] = KeyError

\* One execution of main() with the widgets holding (year, variable).
Main(year, variable) ==
    LET hit        == CacheHit(cache)
        loaded     == IF hit THEN cache[1] ELSE Frame(file)
        sorted     == SortByYear(loaded, argsort)
        cumulative == cumsum(AdoptionSorted(
                          value_counts(Column(sorted, "Adoption_Year"))))
        chosen     == selectbox(unique(Column(sorted, "Year")), year)
    IN  /\ cache' = IF hit THEN cache ELSE <<loaded>>
        /\ reads' = IF hit THEN reads ELSE reads + 1
        /\ data' = sorted
        /\ avg_usage' = aggregate_usage(sorted)
        /\ avg_savings' = aggregate_savings(sorted)
        /\ adoption_years' = cumulative
        /\ IF cumulative = <<>>
           THEN \* pd.concat([]) raises; the map tab is not reached
                /\ error' = ValueError
                /\ expanded_adoption_data' = <<>>
                /\ country_avg' = <<>>
                /\ UNCHANGED <<selected_year, selected_variable>>
           ELSE /\ expanded_adoption_data' = expand(cumulative)
                /\ selected_year' = chosen
                /\ selected_variable' = variable
                /\ IF map_raises(sorted, chosen, variable)
                   THEN /\ error' = KeyError
                        /\ country_avg' = <<>>
                   ELSE /\ error' = NoError
                        /\ country_avg' = map_reduce(sorted, chosen, variable)
        /\ UNCHANGED <<file, argsort>>

Started == cache # <<>>

\* the first run of the script in the process
Start ==
    /\ ~Started
    /\ Main(NoSelection, variables[1])

\* a rerun with the widgets untouched
Rerun ==
    /\ Started
    /\ Main(selected_year, selected_variable)

\* the user picks another option of "Select Year"; the widget exists only
\* if the last run reached the map tab
SelectYear ==
    /\ Started
    /\ error # ValueError
    /\ \E y \in Range(unique(Column(data, "Year"))) \ {selected_year} :
           Main(y, selected_variable)

\* the user picks another option of "Select Variable"
SelectVariable ==
    /\ Started
    /\ error # ValueError
    /\ \E v \in Range(variables) \ {selected_variable} :
           Main(selected_year, v)

Next == Start \/ Rerun \/ SelectYear \/ SelectVariable

InitWith(Rows) ==
    /\ file \in Tables(Rows)
    /\ argsort \in argsorts(Column(Frame(file), "Year"))
    /\ cache = <<>>
    /\ reads = 0
    /\ selected_year = NoSelection
    /\ selected_variable = variables[1]
    /\ data = <<>>
    /\ avg_usage = <<>>
    /\ avg_savings = <<>>
    /\ adoption_years = <<>>
    /\ expanded_adoption_data = <<>>
    /\ country_avg = <<>>
    /\ error = NoError

InitSort == InitWith(SortRows)
InitAgg == InitWith(AggRows)
InitAdoption == InitWith(AdoptionRows)
InitMap == InitWith(MapRows)
InitMode == InitWith(ModeRows)

SpecSort == InitSort /\ [][Next]_vars
SpecAgg == InitAgg /\ [][Next]_vars
SpecAdoption == InitAdoption /\ [][Next]_vars
SpecMode == InitMode /\ [][Next]_vars
\* the specification of the map view and of the run as a whole
Spec == InitMap /\ [][Next]_vars

----------------------------------------------------------------------------
\* Properties.  They are stated over the memoized table, with counting and
\* summing over sets of its row positions.

Loaded == cache[1]
LoadedRows == [i \in 1..Len(Loaded) |-> Loaded[i].row]
Positions == 1..Len(Loaded)

RECURSIVE SumOver(_, _)
SumOver(I, f) ==
    IF I = {} THEN 0
    ELSE LET i == CHOOSE j \in I : TRUE IN f[i] + SumOver(I \ {i}, f)

\* value is the exact mean of the column over those of the rows I that hold
\* a value (nothing is said of a group that holds none)
IsMeanOver(value, I, col) ==
    LET J == {i \in I : LoadedRows[i][col] # NaN}
    IN  J # {} =>
            /\ value[2] > 0
            /\ value[1] * Cardinality(J) =
                   value[2] * SumOver(J, Column(Loaded, col))

\* the values of the column that are most frequent among the rows I
Tied(I, col) ==
    LET vals   == {LoadedRows[i][col] : i \in I} \ {NA}
        cnt(v) == Cardinality({i \in I : LoadedRows[i][col] = v})
    IN  {v \in vals : \A w \in vals : cnt(w) <= cnt(v)}

RowCount(df, r) == Cardinality({i \in DOMAIN df : df[i].row = r})

\* C6: the sorted table is a permutation of the loaded rows (same length,
\* same multiset of rows) with Year non-decreasing from each row to the next.
SortIsPermutation ==
    Started =>
        /\ Len(data) = Len(Loaded)
        /\ \A r \in Range(LoadedRows) \cup Range([i \in DOMAIN data |-> data[i].row]) :
               RowCount(data, r) = RowCount(Loaded, r)
        /\ \A k \in 1..(Len(data) - 1) :
               data[k].row.Year <= data[k + 1].row.Year

SortMovedRows ==
    /\ Started
    /\ Len(data) >= 3
    /\ data[1].idx # 0
    /\ \E k \in 1..(Len(data) - 1) : data[k].row.Year = data[k + 1].row.Year

\* C8 as stated: of two rows with equal Year, the one that comes first in
\* the loaded table comes first in the sorted table.
SortIsStable ==
    Started =>
        \A i, j \in DOMAIN data :
            (i < j /\ data[i].row.Year = data[j].row.Year)
                => data[i].idx < data[j].idx

PositionOf(label) == CHOOSE k \in DOMAIN data : data[k].idx = label

\* C8 amended: every loaded row is in the sorted table, and of two rows with
\* different Year the one with the smaller Year comes first; the order of
\* rows with equal Year is not fixed.
SortOrdersDistinctYears ==
    Started =>
        /\ \A a \in Positions : \E k \in DOMAIN data : data[k].idx = Loaded[a].idx
        /\ \A a, b \in Positions :
               Loaded[a].row.Year < Loaded[b].row.Year
                   => PositionOf(Loaded[a].idx) < PositionOf(Loaded[b].idx)

SortReversedATie ==
    /\ Started
    /\ \E i, j \in DOMAIN data :
           /\ i < j
           /\ data[i].row.Year = data[j].row.Year
           /\ data[i].idx > data[j].idx
    /\ \E i, j \in DOMAIN data : data[i].row.Year < data[j].row.Year

AdoptionValues == {LoadedRows[i].Adoption_Year : i \in Positions} \ {NaN}
Adopted(y) == {i \in Positions : LoadedRows[i].Adoption_Year = y}
AdoptedUpTo(y) ==
    {i \in Positions : /\ LoadedRows[i].Adoption_Year # NaN
                       /\ LoadedRows[i].Adoption_Year <= y}

\* C2: the cumulative table has one row per distinct Adoption_Year, ascending
\* by Year; Count is the number of rows with that Adoption_Year and
\* Cumulative_Count the number of rows with an Adoption_Year up to it, so
\* Cumulative_Count is strictly increasing and ends at the number of rows
\* that have an Adoption_Year.
CumulativeTableCorrect ==
    Started =>
        /\ Len(adoption_years) = Cardinality(AdoptionValues)
        /\ Range(Column(adoption_years, "Year")) = AdoptionValues
        /\ \A k \in 1..(Len(adoption_years) - 1) :
               /\ adoption_years[k].row.Year < adoption_years[k + 1].row.Year
               /\ adoption_years[k].row.Cumulative_Count
                      < adoption_years[k + 1].row.Cumulative_Count
        /\ \A k \in 1..Len(adoption_years) :
               /\ adoption_years[k].row.Count =
                      Cardinality(Adopted(adoption_years[k].row.Year))
               /\ adoption_years[k].row.Cumulative_Count =
                      Cardinality(AdoptedUpTo(adoption_years[k].row.Year))
        /\ adoption_years # <<>> =>
               adoption_years[Len(adoption_years)].row.Cumulative_Count =
                   Cardinality({i \in Positions :
                                   LoadedRows[i].Adoption_Year # NaN})

\* the counts came out of value_counts in another order than by Year, and a
\* row has no Adoption_Year
CumulativeTableReordered ==
    /\ Started
    /\ Len(adoption_years) = 2
    /\ adoption_years[1].idx > adoption_years[2].idx
    /\ \E i \in Positions : LoadedRows[i].Adoption_Year = NaN

Tagged(c, y) ==
    [Year |-> c.Year, Count |-> c.Count,
     Cumulative_Count |-> c.Cumulative_Count, Animation_Year |-> y]
AnimationYears == Range(Column(expanded_adoption_data, "Animation_Year"))
FrameEqualsCumulativeTable ==
    /\ Len(expanded_adoption_data) = Len(adoption_years)
    /\ \A k \in 1..Len(adoption_years) :
           expanded_adoption_data[k].row =
               Tagged(adoption_years[k].row,
                      expanded_adoption_data[k].row.Animation_Year)

\* C1: the expanded table exists for every table; it has one snapshot per
\* Year Y of the cumulative table, the snapshot of Y holds each cumulative
\* row with Year <= Y exactly once, unchanged, and no other row.
ExpansionCorrect ==
    Started =>
        /\ error # ValueError
        /\ AnimationYears = AdoptionValues
        /\ \A y \in AdoptionValues : \A c \in Range(adoption_years) :
               RowCount(expanded_adoption_data, Tagged(c.row, y)) =
                   IF c.row.Year <= y THEN 1 ELSE 0
        /\ \A e \in Range(expanded_adoption_data) :
               /\ e.row.Year <= e.row.Animation_Year
               /\ \E c \in Range(adoption_years) :
                      e.row = Tagged(c.row, e.row.Animation_Year)

DatasetYears == Range(Column(Loaded, "Year"))

\* C7 as stated, for the runs that produce the expanded table: a dataset
\* whose Year column has one distinct value yields one Animation_Year frame,
\* equal to the cumulative table.
SingleYearOneFrame ==
    (Started /\ error # ValueError /\ Cardinality(DatasetYears) = 1) =>
        /\ Cardinality(AnimationYears) = 1
        /\ FrameEqualsCumulativeTable

\* C7 amended: a dataset whose Adoption_Year column has one distinct value
\* yields one Animation_Year frame, equal to the cumulative table.
SingleAdoptionYearOneFrame ==
    (Started /\ Cardinality(AdoptionValues) = 1) =>
        /\ error # ValueError
        /\ Cardinality(AnimationYears) = 1
        /\ FrameEqualsCumulativeTable

SingleAdoptionYearSeveralYears ==
    /\ Started
    /\ Cardinality(AdoptionValues) = 1
    /\ Cardinality(DatasetYears) = 2
    /\ Len(expanded_adoption_data) = 1
    /\ expanded_adoption_data[1].row.Cumulative_Count = 2

UsageKeys ==
    {<<LoadedRows[i].Year, LoadedRows[i].Energy_Source>> :
        i \in {j \in Positions : LoadedRows[j].Energy_Source # NA}}
UsageGroup(year, source) ==
    {i \in Positions : /\ LoadedRows[i].Year = year
                       /\ LoadedRows[i].Energy_Source = source}
SavingsKeys ==
    {<<LoadedRows[i].Year, LoadedRows[i].Income_Level>> :
        i \in {j \in Positions : LoadedRows[j].Income_Level # NA}}
SavingsGroup(year, level) ==
    {i \in Positions : /\ LoadedRows[i].Year = year
                       /\ LoadedRows[i].Income_Level = level}

\* C4: the usage aggregate has exactly one row per (Year, Energy_Source)
\* pair of the input and none for other pairs, holding the mean of
\* Monthly_Usage_kWh over the rows of the pair, missing values excluded; the
\* savings aggregate likewise over (Year, Income_Level) and Cost_Savings_USD.
AggregatesCorrect ==
    Started =>
        /\ Len(avg_usage) = Cardinality(UsageKeys)
        /\ {<<e.row.Year, e.row.Energy_Source>> : e \in Range(avg_usage)}
               = UsageKeys
        /\ \A e \in Range(avg_usage) :
               IsMeanOver(e.row.Monthly_Usage_kWh,
                          UsageGroup(e.row.Year, e.row.Energy_Source),
                          "Monthly_Usage_kWh")
        /\ Len(avg_savings) = Cardinality(SavingsKeys)
        /\ {<<e.row.Year, e.row.Income_Level>> : e \in Range(avg_savings)}
               = SavingsKeys
        /\ \A e \in Range(avg_savings) :
               IsMeanOver(e.row.Cost_Savings_USD,
                          SavingsGroup(e.row.Year, e.row.Income_Level),
                          "Cost_Savings_USD")

\* a usage group mixes a missing and a known value, a savings group two
\* different known values
AggregatesSkipMissing ==
    /\ Started
    /\ \E e \in Range(avg_usage) :
           LET g == UsageGroup(e.row.Year, e.row.Energy_Source)
           IN  /\ \E i \in g : LoadedRows[i].Monthly_Usage_kWh = NaN
               /\ \E i \in g : LoadedRows[i].Monthly_Usage_kWh # NaN
    /\ \E e \in Range(avg_savings) : e.row.Cost_Savings_USD = <<20, 1>>

MapCountries ==
    {LoadedRows[i].Country :
        i \in {j \in Positions : LoadedRows[j].Year = selected_year}} \ {NA}
CountryGroup(country) ==
    {i \in Positions : /\ LoadedRows[i].Year = selected_year
                       /\ LoadedRows[i].Country = country}

\* C3: the map output has exactly one row per Country that has a row of the
\* selected Year and none for other Countries; the row holds the mean of the
\* Variable over that Country's rows of the Year when the Variable is
\* numeric, and a most frequent value of it when it is categorical.
MapCorrect ==
    Started =>
        /\ Len(country_avg) = Cardinality(MapCountries)
        /\ Range(Column(country_avg, "Country")) = MapCountries
        /\ \A e \in Range(country_avg) :
               IF selected_variable \in numeric_variables
               THEN IsMeanOver(e.row[selected_variable],
                               CountryGroup(e.row.Country), selected_variable)
               ELSE e.row[selected_variable] \in
                        Tied(CountryGroup(e.row.Country), selected_variable)

HoldsValue(I, col) == \E i \in I : ~isna(col, LoadedRows[i][col])

\* C5: no aggregation raises, and every output row of the usage, savings
\* and map aggregations belongs to a group that holds at least one value.
EmptyGroupsSilent ==
    Started =>
        /\ error # KeyError
        /\ \A e \in Range(avg_usage) :
               HoldsValue(UsageGroup(e.row.Year, e.row.Energy_Source),
                          "Monthly_Usage_kWh")
        /\ \A e \in Range(avg_savings) :
               HoldsValue(SavingsGroup(e.row.Year, e.row.Income_Level),
                          "Cost_Savings_USD")
        /\ \A e \in Range(country_avg) :
               HoldsValue(CountryGroup(e.row.Country), selected_variable)

Smallest(S) == CHOOSE v \in S : \A w \in S : StrRank(v) <= StrRank(w)
CountryRows(country) ==
    SelectSeq(data, LAMBDA e : /\ e.row.Year = selected_year
                               /\ e.row.Country = country)

\* C10: with a categorical Variable, for a Country whose rows of the
\* selected Year have several equally most frequent values, the reduction
\* yields the smallest of them, in whatever order the rows stand, and that
\* is the value of the Country's row of the map output.
ModeTieBreak ==
    (Started /\ selected_variable \notin numeric_variables) =>
        \A c \in MapCountries :
            LET tied == Tied(CountryGroup(c), selected_variable)
            IN  Cardinality(tied) >= 2 =>
                    /\ mode_first(Column(CountryRows(c), selected_variable))
                           = Smallest(tied)
                    /\ \A e \in Range(country_avg) :
                           e.row.Country = c =>
                               e.row[selected_variable] = Smallest(tied)

\* a tie is reported whose smallest value is not the first one met
ModeTieNotFirstMet ==
    /\ Started
    /\ selected_variable \notin numeric_variables
    /\ \E e \in Range(country_avg) :
           /\ Cardinality(Tied(CountryGroup(e.row.Country),
                               selected_variable)) >= 2
           /\ CountryRows(e.row.Country)[1].row[selected_variable]
                  \notin {NA, e.row[selected_variable]}

RowsOf(df) == [i \in 1..Len(df) |-> df[i].row]

\* what a run leaves behind, as a function of the memoized table and the
\* two selections
RenderedFromLoaded ==
    /\ reads = 1
    /\ Loaded = Frame(file)
    /\ RowsOf(data) \in {RowsOf(take(Loaded, q)) :
                            q \in argsorts(Column(Loaded, "Year"))}
    /\ avg_usage = aggregate_usage(Loaded)
    /\ avg_savings = aggregate_savings(Loaded)
    /\ RowsOf(adoption_years) =
           RowsOf(cumsum(AdoptionSorted(
                      value_counts(Column(Loaded, "Adoption_Year")))))
    /\ RowsOf(expanded_adoption_data) = RowsOf(expand(adoption_years))
    /\ error = IF adoption_years = <<>> THEN ValueError
               ELSE IF map_raises(Loaded, selected_year, selected_variable)
                    THEN KeyError ELSE NoError
    /\ country_avg =
           IF error # NoError THEN <<>>
           ELSE map_reduce(Loaded, selected_year, selected_variable)

\* C9: the file is read exactly once, on the first run; the memoized table
\* never changes afterwards; after every interaction the rendered result is
\* recomputed from that table and the current selections alone.
LoadOnceRecomputeAlways ==
    /\ [](IF Started THEN RenderedFromLoaded ELSE reads = 0)
    /\ [][Started => (cache' = cache /\ reads' = reads)]_vars

\* both selections were changed and the map was rendered
RenderedAfterSelections ==
    /\ Started
    /\ selected_year = 2016
    /\ selected_variable = "Income_Level"
    /\ error = NoError
    /\ country_avg # <<>>

====
